---- MODULE Spec2Model ----
(***************************************************************************)
(* The `Ordinal` derive macro of src/src/lib.rs: derive_ordinal reads one  *)
(* DeriveInput, detect_variants collects one Variant record per declared   *)
(* variant, generate_match_arms builds one `pattern => ordinal` arm per    *)
(* record, and the quote! block wraps the arms into                        *)
(*     impl Enum { pub fn ordinal(&self) -> usize { match self { arms } } } *)
(* The emitted tokens are then compiled by rustc and ordinal() is called   *)
(* on values of the enum, as in src/tests/ordinal.rs.                      *)
(***************************************************************************)
EXTENDS Integers, Sequences, FiniteSets

\* Bounds of the model.
MaxVariants == 3
MaxFields == 2

\* Identifiers a declaration may use for its variants, and the name of the enum.
IdentNames == <<"A", "B", "C", "D", "E">>
Idents == {IdentNames[i] : i \in 1..Len(IdentNames)}
EnumIdent == "Test"
\* Contents a field of a value may hold.
FieldValues == {0, 1}

(***************************************************************************)
(* The input: syn::DeriveInput.  `data` is syn::Data (Enum, Struct,        *)
(* Union); an enum has a sequence of syn::Variant in declaration order,    *)
(* each with an ident and syn::Fields (Unit, Unnamed(list), Named(list)).  *)
(* `len` is the length of the field list (0 for Unit, which has none).     *)
(***************************************************************************)
SynFields ==
    {[kind |-> "Unit", len |-> 0]}
        \cup {[kind |-> k, len |-> n] : k \in {"Unnamed", "Named"}, n \in 0..MaxFields}

SynVariant == [ident : Idents, fields : SynFields]

\* Variant lists: rustc rejects two variants of one name, so names are distinct.
\* A list of n variants uses the first n names in any rotation, so that every
\* name stands at every position.
Rotation(n, r) == [i \in 1..n |-> IdentNames[((i - 1 + r) % n) + 1]]

VariantLists ==
    UNION {{[i \in 1..n |-> [ident |-> Rotation(n, r)[i], fields |-> f[i]]] :
                r \in 0..(n - 1), f \in [1..n -> SynFields]} :
           n \in 0..MaxVariants}

DeriveInputs ==
    {[ident |-> EnumIdent, data |-> "Enum", variants |-> s] : s \in VariantLists}
        \cup {[ident |-> EnumIdent, data |-> d, variants |-> <<>>] : d \in {"Struct", "Union"}}

VARIABLES
    input,       \* the DeriveInput handed to derive_ordinal
    pc,          \* where the transform, then the build, stands
    variants,    \* `vec` of detect_variants, then `variants` of derive_ordinal
    match_arms,  \* `vec` of generate_match_arms
    tokens,      \* what derive_ordinal returns: <<>> or <<the impl block>>
    error,       \* <<>> or <<the diagnostic of abort_call_site!>>
    self,        \* <<>> or <<the value ordinal() was last called on>>
    result       \* <<>> or <<what that call returned>>

vars == <<input, pc, variants, match_arms, tokens, error, self, result>>

(***************************************************************************)
(* detect_variants / detect_variant                                        *)
(***************************************************************************)
IsEnumMutant(data) == data # "Union"
\* `match &input.data { syn::Data::Enum(data) => data, _ => abort_call_site!(..) }`
IsEnum(data) == data = "Enum"

AbortCallSite ==
    [site |-> "call_site",
     message |-> "cannot derive Ordinal on an item which is not an enum"]

detect_variantMutant(variant) ==
    [ident |-> variant.ident,
     unit_field_count |-> IF variant.fields.kind = "Unit" THEN 0 ELSE variant.fields.len,
     has_named_fields |-> FALSE]
detect_variant(variant) ==
    [ident |-> variant.ident,
     unit_field_count |->
        CASE variant.fields.kind = "Named" -> 0
          [] variant.fields.kind = "Unit" -> 0
          [] variant.fields.kind = "Unnamed" -> variant.fields.len,
     has_named_fields |->
        CASE variant.fields.kind = "Named" -> TRUE
          [] variant.fields.kind = "Unit" -> FALSE
          [] variant.fields.kind = "Unnamed" -> FALSE]

\* The whole loop of detect_variants on an enum.
detect_variants(in) == [i \in 1..Len(in.variants) |-> detect_variant(in.variants[i])]

(***************************************************************************)
(* generate_match_arms                                                     *)
(***************************************************************************)
Wildcard == [wild |-> TRUE, lit |-> 0]

underscoresMutant(x) == [i \in 1..x |-> [wild |-> FALSE, lit |-> 0]]
\* `(0..x).map(|_| quote! { _ }).collect()`
underscores(x) == [i \in 1..x |-> Wildcard]

\* The three pattern forms quote! builds, and the `unreachable!()` case.
\* Struct: `E::V { .. }` (named: the field names listed, rest: the `..`);
\* TupleStruct: `E::V(slots)`; Path: `E::V`.
StructPattern(e, v) ==
    [kind |-> "Struct", enum |-> e, variant |-> v, slots |-> <<>>, named |-> {}, rest |-> TRUE]
TupleStructPattern(e, v, slots) ==
    [kind |-> "TupleStruct", enum |-> e, variant |-> v, slots |-> slots, named |-> {}, rest |-> FALSE]
PathPattern(e, v) ==
    [kind |-> "Path", enum |-> e, variant |-> v, slots |-> <<>>, named |-> {}, rest |-> FALSE]
Unreachable(e, v) ==
    [kind |-> "unreachable", enum |-> e, variant |-> v, slots |-> <<>>, named |-> {}, rest |-> FALSE]

patternMutant(enum_ident, variant) ==
    IF variant.has_named_fields
    THEN StructPattern(enum_ident, variant.ident)
    ELSE IF variant.unit_field_count > 1
    THEN TupleStructPattern(enum_ident, variant.ident, underscores(variant.unit_field_count))
    ELSE IF variant.unit_field_count = 0
    THEN PathPattern(enum_ident, variant.ident)
    ELSE Unreachable(enum_ident, variant.ident)
\* `match (variant.has_named_fields, variant.unit_field_count) { .. }`
pattern(enum_ident, variant) ==
    IF variant.has_named_fields
    THEN StructPattern(enum_ident, variant.ident)
    ELSE IF ~variant.has_named_fields /\ variant.unit_field_count # 0
    THEN TupleStructPattern(enum_ident, variant.ident, underscores(variant.unit_field_count))
    ELSE IF ~variant.has_named_fields /\ variant.unit_field_count = 0
    THEN PathPattern(enum_ident, variant.ident)
    ELSE Unreachable(enum_ident, variant.ident)

enumerateMutant(vs) == [i \in 1..Len(vs) |-> [ordinal |-> Len(vs) - i, variant |-> vs[i]]]
\* `variants.iter().enumerate()`: 0-based index paired with the element.
enumerate(vs) == [i \in 1..Len(vs) |-> [ordinal |-> i - 1, variant |-> vs[i]]]

match_armMutant(enum_ident, ordinal, variant) ==
    [pattern |-> pattern(enum_ident, variant), ordinal |-> ordinal + 1]
\* `quote! { #pattern => #ordinal }`
match_arm(enum_ident, ordinal, variant) ==
    [pattern |-> pattern(enum_ident, variant), ordinal |-> ordinal]

\* The whole loop of generate_match_arms (no variant hits `unreachable!()`).
generate_match_arms(vs, in) ==
    [i \in 1..Len(vs) |->
        match_arm(in.ident, enumerate(vs)[i].ordinal, enumerate(vs)[i].variant)]

\* `impl #enum_ident { pub fn ordinal(&self) -> usize { match self { #(#match_arms,)* } } }`
quote(enum_ident, arms) == [impl |-> enum_ident, method |-> "ordinal", arms |-> arms]

\* derive_ordinal on an enum, start to end.
derive_ordinal(in) == quote(in.ident, generate_match_arms(detect_variants(in), in))

(***************************************************************************)
(* The emitted `match self { arms }` under rustc.                          *)
(***************************************************************************)
\* The values of the declared enum: a variant tag and its field contents.
Values(in) ==
    UNION {{[variant |-> in.variants[i].ident, fields |-> f] :
                f \in [1..in.variants[i].fields.len -> FieldValues]} :
           i \in 1..Len(in.variants)}

VariantDecl(in, name) ==
    CHOOSE i \in 1..Len(in.variants) : in.variants[i].ident = name

\* rustc accepts a path pattern for a unit variant only (E0533 otherwise), a
\* tuple-struct pattern for a tuple variant of the same arity only (E0532,
\* E0023), and `V { .. }` for a variant of any shape.
PatternWellTyped(p, in) ==
    /\ p.enum = in.ident
    /\ \E i \in 1..Len(in.variants) : in.variants[i].ident = p.variant
    /\ LET f == in.variants[VariantDecl(in, p.variant)].fields
       IN  CASE p.kind = "Path" -> f.kind = "Unit"
             [] p.kind = "TupleStruct" -> f.kind = "Unnamed" /\ Len(p.slots) = f.len
             [] p.kind = "Struct" -> p.rest /\ p.named = {}
             [] OTHER -> FALSE

\* A well-typed pattern matches a value when the tags agree and
\* every slot accepts the field under it.
PatternMatches(p, v) ==
    /\ p.variant = v.variant
    /\ p.kind = "TupleStruct" =>
          /\ Len(p.slots) = Len(v.fields)
          /\ \A k \in 1..Len(p.slots) : p.slots[k].wild \/ p.slots[k].lit = v.fields[k]

\* The exhaustiveness check of rustc (E0004); the scrutinee `self` is a reference,
\* which rustc takes to be inhabited, so a match with no arm is not exhaustive.
Exhaustive(arms, in) ==
    /\ arms # <<>>
    /\ \A v \in Values(in) : \E i \in 1..Len(arms) : PatternMatches(arms[i].pattern, v)

RustcAccepts(t, in) ==
    /\ \A i \in 1..Len(t.arms) : PatternWellTyped(t.arms[i].pattern, in)
    /\ Exhaustive(t.arms, in)

\* `match self { .. }`: the arms are tried in order, the first that matches wins.
FirstMatch(arms, v) ==
    CHOOSE i \in 1..Len(arms) :
        /\ PatternMatches(arms[i].pattern, v)
        /\ \A j \in 1..(i - 1) : ~PatternMatches(arms[j].pattern, v)

ordinal(t, v) == t.arms[FirstMatch(t.arms, v)].ordinal

(***************************************************************************)
(* The state machine.                                                      *)
(***************************************************************************)
Init ==
    /\ input \in DeriveInputs
    /\ pc = "detect_variants"
    /\ variants = <<>>
    /\ match_arms = <<>>
    /\ tokens = <<>>
    /\ error = <<>>
    /\ self = <<>>
    /\ result = <<>>

\* detect_variants, lines 68-73, on an enum: the vec is empty, the loop starts.
DetectVariantsEnum ==
    /\ pc = "detect_variants"
    /\ IsEnum(input.data)
    /\ pc' = "detect_loop"
    /\ UNCHANGED <<input, variants, match_arms, tokens, error, self, result>>

\* detect_variants, lines 68-73, on anything else: abort_call_site!.
DetectVariantsAbort ==
    /\ pc = "detect_variants"
    /\ ~IsEnum(input.data)
    /\ error' = <<AbortCallSite>>
    /\ pc' = "aborted"
    /\ UNCHANGED <<input, variants, match_arms, tokens, self, result>>

\* One iteration of `for variant in &data.variants`.
DetectVariantsPush ==
    /\ pc = "detect_loop"
    /\ Len(variants) < Len(input.variants)
    /\ variants' = Append(variants, detect_variant(input.variants[Len(variants) + 1]))
    /\ UNCHANGED <<input, pc, match_arms, tokens, error, self, result>>

\* detect_variants returns; derive_ordinal calls generate_match_arms.
DetectVariantsReturn ==
    /\ pc = "detect_loop"
    /\ Len(variants) = Len(input.variants)
    /\ pc' = "generate_loop"
    /\ UNCHANGED <<input, variants, match_arms, tokens, error, self, result>>

\* One iteration of `for (ordinal, variant) in variants.iter().enumerate()`.
GenerateMatchArmsPush ==
    /\ pc = "generate_loop"
    /\ Len(match_arms) < Len(variants)
    /\ LET next == enumerate(variants)[Len(match_arms) + 1]
           arm == match_arm(input.ident, next.ordinal, next.variant)
       IN  IF arm.pattern.kind = "unreachable"
           THEN /\ pc' = "panicked"
                /\ UNCHANGED match_arms
           ELSE /\ match_arms' = Append(match_arms, arm)
                /\ UNCHANGED pc
    /\ UNCHANGED <<input, variants, tokens, error, self, result>>

\* generate_match_arms returns; derive_ordinal quotes the impl block and returns it.
Emit ==
    /\ pc = "generate_loop"
    /\ Len(match_arms) = Len(variants)
    /\ tokens' = <<quote(input.ident, match_arms)>>
    /\ pc' = "emitted"
    /\ UNCHANGED <<input, variants, match_arms, error, self, result>>

\* rustc compiles the declaration together with the emitted impl block.
Rustc ==
    /\ pc = "emitted"
    /\ pc' = IF RustcAccepts(tokens[1], input) THEN "compiled" ELSE "rejected"
    /\ UNCHANGED <<input, variants, match_arms, tokens, error, self, result>>

\* The program calls ordinal() on a value of the enum.  The method keeps no
\* state, so calls are independent and a behaviour makes one.
CallOrdinal ==
    /\ pc = "compiled"
    /\ \E v \in Values(input) :
          /\ self' = <<v>>
          /\ result' = <<ordinal(tokens[1], v)>>
    /\ pc' = "called"
    /\ UNCHANGED <<input, variants, match_arms, tokens, error>>

Next ==
    \/ DetectVariantsEnum
    \/ DetectVariantsAbort
    \/ DetectVariantsPush
    \/ DetectVariantsReturn
    \/ GenerateMatchArmsPush
    \/ Emit
    \/ Rustc
    \/ CallOrdinal

Spec == Init /\ [][Next]_vars

(***************************************************************************)
(* Properties.                                                             *)
(***************************************************************************)
\* derive_ordinal has returned its tokens.
TransformDone == pc \in {"emitted", "compiled", "rejected", "called"}

\* 1-based position of the variant named `name` in the declaration.
Position(in, name) == CHOOSE i \in 1..Len(in.variants) : in.variants[i].ident = name

\* The ordinal the arm written for variant `name` carries.
OrdinalOf(t, name) ==
    t.arms[CHOOSE k \in 1..Len(t.arms) : t.arms[k].pattern.variant = name].ordinal

Reorderings(n) == {p \in [1..n -> 1..n] : \A i, j \in 1..n : p[i] = p[j] => i = j}

\* C1: for every enum declaration, whatever the shapes of its variants,
\* ordinal() on any value of the i-th variant (0-based) returns i: the build
\* of the generated method is rejected for no enum that has a value, and a
\* call returns the position of the value's variant.
C1_OrdinalIsDeclarationIndex ==
    /\ pc = "rejected" => Values(input) = {}
    /\ pc = "called" => result[1] = Position(input, self[1].variant) - 1

\* C2: ordinal() depends on the variant tag only: no arm inspects or binds a
\* field (every slot is a wildcard, no field is named), and the number a call
\* returned is the number returned for every other value of the same variant.
C2_FieldContentsIgnored ==
    /\ TransformDone =>
          \A i \in 1..Len(tokens[1].arms) :
              /\ tokens[1].arms[i].pattern.named = {}
              /\ \A k \in 1..Len(tokens[1].arms[i].pattern.slots) :
                     tokens[1].arms[i].pattern.slots[k].wild
    /\ pc = "called" =>
          \A v \in Values(input) :
              v.variant = self[1].variant => ordinal(tokens[1], v) = result[1]

C2_Witness ==
    /\ pc = "called"
    /\ self[1].fields = <<1, 0>>
    /\ result[1] = 1

\* C3: on a struct or a union the transform aborts at the call site before a
\* variant is collected or an arm is built, and emits nothing; on an enum it
\* never takes the error path and emits one arm for each declared variant.
C3_NonEnumAbortsEnumEmits ==
    /\ input.data # "Enum" =>
          /\ pc \in {"detect_variants", "aborted"}
          /\ variants = <<>> /\ match_arms = <<>> /\ tokens = <<>>
    /\ pc = "aborted" =>
          /\ input.data # "Enum"
          /\ Len(error) = 1 /\ error[1].site = "call_site"
    /\ input.data = "Enum" => error = <<>> /\ pc # "aborted"
    /\ input.data = "Enum" /\ TransformDone =>
          /\ Len(tokens[1].arms) = Len(input.variants)
          /\ \A i \in 1..Len(input.variants) :
                 tokens[1].arms[i].pattern.variant = input.variants[i].ident

C3_Witness == pc = "aborted" /\ input.data = "Struct" /\ error # <<>>

\* C4: the arms are as many as the variants and in their order, and their
\* ordinals are 0, 1, .., n-1: dense, unique and strictly increasing,
\* whatever the names and shapes of the variants.
C4_OrdinalsDenseInDeclarationOrder ==
    /\ \A i \in 1..Len(match_arms) :
          /\ match_arms[i].ordinal = i - 1
          /\ match_arms[i].pattern.variant = input.variants[i].ident
    /\ TransformDone =>
          LET arms == tokens[1].arms
              n == Len(input.variants)
          IN  /\ Len(arms) = n
              /\ {arms[i].ordinal : i \in 1..n} = 0..(n - 1)
              /\ \A i, j \in 1..n : i < j => arms[i].ordinal < arms[j].ordinal
              /\ \A i \in 1..n : arms[i].pattern.variant = input.variants[i].ident

C4_Witness ==
    /\ pc = "emitted"
    /\ Len(input.variants) = 3
    /\ input.variants[1].fields = [kind |-> "Unnamed", len |-> 1]
    /\ input.variants[2].fields = [kind |-> "Named", len |-> 2]
    /\ input.variants[3].fields = [kind |-> "Unit", len |-> 0]

\* C5: the rule of every unnamed-field variant of n >= 0 fields is the tag
\* applied to n wildcard slots, or a form rustc accepts for that variant, and
\* it matches every value of the variant, so that ordinal() returns its index.
C5_UnnamedRuleMatchesEveryArity ==
    TransformDone =>
        \A i \in 1..Len(input.variants) :
            input.variants[i].fields.kind = "Unnamed" =>
                LET arm == tokens[1].arms[i]
                IN  /\ arm.ordinal = i - 1
                    /\ PatternWellTyped(arm.pattern, input)
                    /\ \A v \in Values(input) :
                           v.variant = input.variants[i].ident =>
                               PatternMatches(arm.pattern, v)

\* C6: one rule for each variant and no fallback rule; for every value of the
\* enum exactly one rule is accepted and matches, and the method returns a
\* number in 0..n-1.
C6_ExactlyOneRuleMatches ==
    TransformDone =>
        LET arms == tokens[1].arms
            n == Len(input.variants)
        IN  /\ Len(arms) = n
            /\ \A i \in 1..n : arms[i].pattern.kind \in {"Struct", "TupleStruct", "Path"}
            /\ \A v \in Values(input) :
                   Cardinality({i \in 1..n :
                                   /\ PatternWellTyped(arms[i].pattern, input)
                                   /\ PatternMatches(arms[i].pattern, v)}) = 1
            /\ pc = "called" => result[1] \in 0..(n - 1)

\* C7: when the variants are declared in another order, every variant name
\* gets its position in the new order, and the ordinal of a name changes
\* exactly when its position does.
C7_ReorderingFollowsDeclarationOrder ==
    pc = "emitted" =>
        \A p \in Reorderings(Len(input.variants)) :
            LET n == Len(input.variants)
                in2 == [input EXCEPT !.variants = [j \in 1..n |-> input.variants[p[j]]]]
            IN  \A t2 \in {derive_ordinal(in2)} :
                    /\ \A j \in 1..n : OrdinalOf(t2, in2.variants[j].ident) = j - 1
                    /\ \A j \in 1..n :
                           (OrdinalOf(t2, in2.variants[j].ident)
                                # OrdinalOf(tokens[1], in2.variants[j].ident))
                           <=> p[j] # j

C7_Witness ==
    /\ pc = "emitted"
    /\ Len(input.variants) = 3
    /\ input.variants[1].ident = "C"
    /\ input.variants[1].fields.kind = "Named"
    /\ input.variants[2].fields.kind = "Unnamed"

\* C8: when one unnamed-field variant gets another number of fields, its rule
\* changes in the number of its slots and in nothing else, its ordinal stays,
\* and the rule and ordinal of every other variant stay.
C8_FieldCountChangesOnlyOwnArity ==
    pc = "emitted" =>
        \A i \in 1..Len(input.variants) : \A m \in 0..MaxFields :
            input.variants[i].fields.kind = "Unnamed" =>
                LET in2 == [input EXCEPT !.variants[i].fields.len = m]
                    t2 == derive_ordinal(in2)
                    old == tokens[1].arms[i]
                    new == t2.arms[i]
                IN  /\ Len(t2.arms) = Len(tokens[1].arms)
                    /\ \A j \in 1..Len(t2.arms) : j # i => t2.arms[j] = tokens[1].arms[j]
                    /\ new.ordinal = old.ordinal
                    /\ Len(new.pattern.slots) = m
                    /\ new.pattern = [old.pattern EXCEPT !.slots = new.pattern.slots]

\* C9: a variant is recorded by the shape of its field list alone: named
\* fields give (0, true) whatever their number, and the rule `V { .. }` that
\* names no field; an unnamed list gives (its length, false); a unit variant
\* gives (0, false) and the bare tag.  The records are a function of the
\* declaration, which the transform leaves as it found it.
C9_ShapeFromFieldListOnly ==
    /\ \A i \in 1..Len(variants) :
          LET d == input.variants[i]
          IN  /\ variants[i].ident = d.ident
              /\ d.fields.kind = "Named" =>
                     variants[i].has_named_fields /\ variants[i].unit_field_count = 0
              /\ d.fields.kind = "Unnamed" =>
                     ~variants[i].has_named_fields
                         /\ variants[i].unit_field_count = d.fields.len
              /\ d.fields.kind = "Unit" =>
                     ~variants[i].has_named_fields /\ variants[i].unit_field_count = 0
    /\ \A i \in 1..Len(match_arms) :
          LET d == input.variants[i]
              p == match_arms[i].pattern
          IN  /\ d.fields.kind = "Named" =>
                     p.kind = "Struct" /\ p.rest /\ p.named = {} /\ p.slots = <<>>
              /\ d.fields.kind = "Unit" => p.kind = "Path"
    /\ pc \notin {"detect_variants", "detect_loop", "aborted"} =>
          Len(variants) = Len(input.variants)

C9_Witness ==
    /\ pc = "generate_loop"
    /\ Len(match_arms) = 3
    /\ input.variants[1].fields = [kind |-> "Named", len |-> 0]
    /\ input.variants[2].fields = [kind |-> "Named", len |-> 2]
    /\ input.variants[3].fields = [kind |-> "Unnamed", len |-> 2]

\* C10: for every record detect_variant produces exactly one of the first
\* three cases of the match in generate_match_arms applies, and the transform
\* never reaches `unreachable!()`.
C10_UnreachableNeverReached ==
    /\ pc # "panicked"
    /\ \A i \in 1..Len(variants) :
          LET v == variants[i]
          IN  /\ v.has_named_fields => v.unit_field_count = 0
              /\ Cardinality({c \in 1..3 :
                                 \/ c = 1 /\ v.has_named_fields
                                 \/ c = 2 /\ ~v.has_named_fields /\ v.unit_field_count # 0
                                 \/ c = 3 /\ ~v.has_named_fields /\ v.unit_field_count = 0})
                     = 1
    /\ \A i \in 1..Len(match_arms) : match_arms[i].pattern.kind # "unreachable"

C10_Witness ==
    /\ pc = "compiled"
    /\ Len(input.variants) = 3
    /\ input.variants[1].fields = [kind |-> "Unit", len |-> 0]
    /\ input.variants[2].fields = [kind |-> "Unnamed", len |-> 1]
    /\ input.variants[3].fields = [kind |-> "Named", len |-> 1]

====
